---- MODULE Spec2Model ----
(***************************************************************************)
(* Model of AndroidSetup (src/commands/android/index.ts): one invocation   *)
(* of run() against a host environment (ANDROID_HOME, files, PATH, the     *)
(* outputs of the SDK binaries).  Text written to the console is not       *)
(* modelled; every getBinaryLocation / execBinary / collaborator call is   *)
(* recorded in `log` in program order.                                     *)
(*                                                                         *)
(* Text is modelled as a sequence of tokens: "SEP" is the record separator *)
(* '---------', "ERR" is 'Error: ', NIGHTWATCH_AVD is the device name and  *)
(* "txt" is any other text.  The empty sequence is the empty string.       *)
(***************************************************************************)
EXTENDS Integers, Sequences, FiniteSets, TLC

VARIABLES
  home,            \* process.env.ANDROID_HOME: "unset", "empty" or "set"
  files,           \* paths that exist on the host (and adb on PATH)
  working,         \* binaries that produce output when executed
  avdList,         \* what a working `avdmanager list avd` prints
  adbServer,       \* whether `adb devices` can reach or start the adb server
  options,         \* this.options: [help, setup]
  sdkRoot,         \* this.sdkRoot: "" or "sdkRoot"
  binaryLocation,  \* this.binaryLocation: binary -> location (<<>> = unset)
  mode,            \* setupConfigs.mode ("" before the prompt)
  missing,         \* missingRequirements (the array setupAndroid mutates)
  verified,        \* the list verifySetup returned (<<>> before)
  sdkManagerWorking, \* local of setupAndroid
  packages,        \* packagesToInstall, as handed to the installer
  result,          \* local `result` of setupAndroid
  installed,       \* "none", "ok" or "failed": what the installer returned
  avdCreated,      \* "none", "ok" or "failed": outcome of `create avd`
  avdPresent,      \* local of setupAndroid: "none", then "yes" or "no"
  ret,             \* value returned by run(): "pending", "true", "false"
  pc,              \* position inside run()/setupAndroid()
  log              \* calls made so far, in order

vars == <<home, files, working, avdList, adbServer, options, sdkRoot, binaryLocation,
          mode, missing, verified, sdkManagerWorking, packages, result,
          installed, avdCreated, avdPresent, ret, pc, log>>

envVars == <<home, files, working, avdList, adbServer>>

----------------------------------------------------------------------------
(* Constants of the program *)

NIGHTWATCH_AVD == "nightwatch-android-11"

SdkBinary == {"adb", "avdmanager", "emulator", "sdkmanager"}

Modes == {"real", "emulator", "both"}

\* the '---------' and 'Error: ' literals of verifyAvdPresent
SEP == "SEP"
ERR == "ERR"

\* identifier -> package name; keys are SdkBinary and NIGHTWATCH_AVD
BINARY_TO_PACKAGE_NAME ==
  [b \in SdkBinary \cup {NIGHTWATCH_AVD} |->
     CASE b = "sdkmanager" -> "cmdline-tools;latest"
       [] b = "avdmanager" -> "cmdline-tools;latest"
       [] b = "adb" -> "platform-tools"
       [] b = "emulator" -> "emulator"
       [] OTHER -> "system-images;android-30;google_apis"]

----------------------------------------------------------------------------
(* Paths and locations *)

\* path.join(sdkRoot, SDK_BINARY_LOCATIONS[b], binaryFullName)
PathToBinary(b) == <<"sdkRoot", "subdir", b>>
\* path.join(sdkRoot, binaryFullName) for adb
AdbPath == <<"sdkRoot", "adb">>
\* path.join(sdkRoot, 'platforms')
PlatformsPath == <<"sdkRoot", "platforms">>
\* the SDK root directory itself
RootPath == <<"sdkRoot">>
\* which.sync(adb) finds adb
AdbOnPath == <<"PATH", "adb">>
\* the 'PATH' sentinel and the '' (not found) result
PATH == <<"PATH">>
NotFound == <<>>

UnderRoot == {PathToBinary(b) : b \in SdkBinary} \cup {AdbPath, PlatformsPath}
AllFiles == UnderRoot \cup {RootPath, AdbOnPath}

\* the binary a path holds ("" for a directory)
BinaryAt(p) ==
  IF p = AdbPath \/ p = AdbOnPath THEN "adb"
  ELSE IF Len(p) = 3 THEN p[3] ELSE ""

\* the listings avdmanager may print
Listings ==
  { <<"txt">>,
    <<"txt", NIGHTWATCH_AVD>>,
    <<"txt", SEP, NIGHTWATCH_AVD, ERR>>,
    <<"txt", SEP, ERR, SEP, NIGHTWATCH_AVD, SEP>> }

----------------------------------------------------------------------------
(* Sequence helpers *)

Includes(s, x) == \E i \in 1..Len(s) : s[i] = x

IndexOf(s, x) ==
  IF Includes(s, x) THEN CHOOSE i \in 1..Len(s) :
                           s[i] = x /\ \A j \in 1..(i-1) : s[j] # x
  ELSE 0

\* splice(i, 1)
RemoveAt(s, i) == [j \in 1..(Len(s)-1) |-> IF j < i THEN s[j] ELSE s[j+1]]

RECURSIVE Split(_, _)
\* text.split(sep): the records between separators (always at least one)
Split(text, sep) ==
  IF ~Includes(text, sep) THEN <<text>>
  ELSE LET i == IndexOf(text, sep)
       IN <<SubSeq(text, 1, i-1)>> \o Split(SubSeq(text, i+1, Len(text)), sep)

RECURSIVE Flatten(_)
Flatten(ss) == IF ss = <<>> THEN <<>> ELSE Head(ss) \o Flatten(Tail(ss))

----------------------------------------------------------------------------
(* getBinaryLocation, execBinary and the passes built on them.  All read   *)
(* the current environment (files, working, avdList).                      *)

\* a variant that takes the PATH lookup of adb for found
GetBinaryLocation_PathAssumed(b) ==
  IF PathToBinary(b) \in files THEN PathToBinary(b)
  ELSE IF b = "adb"
       THEN IF AdbPath \in files THEN AdbPath ELSE PATH
       ELSE NotFound

\* getBinaryLocation: the location returned
GetBinaryLocation(b) ==
  IF PathToBinary(b) \in files THEN PathToBinary(b)
  ELSE IF b = "adb"
       THEN IF AdbPath \in files THEN AdbPath
            ELSE IF AdbOnPath \in files THEN PATH
            ELSE NotFound
       ELSE NotFound

\* this.binaryLocation after getBinaryLocation(b)
CacheAfterLocate(cache, b) ==
  IF GetBinaryLocation(b) # NotFound
  THEN [cache EXCEPT ![b] = GetBinaryLocation(b)]
  ELSE cache

LocateEv(b) == [op |-> "locate", bin |-> b, loc |-> GetBinaryLocation(b), arg |-> ""]
ExecEv(loc, b, args) == [op |-> "exec", bin |-> b, loc |-> loc, arg |-> args]
CallEv(name) == [op |-> name, bin |-> "", loc |-> NotFound, arg |-> ""]

\* execBinary for the read-only commands: stdout, or '' when the command
\* fails.  With location '' the command line is './ <args>' (a directory),
\* which cannot be run.
ExecBinary(loc, b, args) ==
  IF loc = NotFound THEN <<>>
  ELSE IF loc # PATH /\ loc \notin files THEN <<>>
  ELSE IF loc = PATH /\ AdbOnPath \notin files THEN <<>>
  ELSE IF b \notin working THEN <<>>
  ELSE IF b = "avdmanager" /\ args = "list avd" THEN avdList
  ELSE IF b = "adb" /\ args = "devices" /\ ~adbServer THEN <<>>
  ELSE <<"txt">>

\* checkBinariesPresent
CheckBinariesPresent(binaries) ==
  SelectSeq(binaries, LAMBDA b : GetBinaryLocation(b) = NotFound)

RECURSIVE CacheAfterLocateAll(_, _)
CacheAfterLocateAll(cache, binaries) ==
  IF binaries = <<>> THEN cache
  ELSE CacheAfterLocateAll(CacheAfterLocate(cache, Head(binaries)), Tail(binaries))

PresenceLog(binaries) == [i \in 1..Len(binaries) |-> LocateEv(binaries[i])]

\* the smoke-test argument of checkBinariesWorking
SmokeArg(b) ==
  IF b = "emulator" THEN "-version"
  ELSE IF b = "avdmanager" THEN "list avd"
  ELSE "--version"

\* binaryPath of checkBinariesWorking: the cached location if there is one
WorkingPath(cache, b) ==
  IF cache[b] # NotFound THEN cache[b] ELSE GetBinaryLocation(b)

\* checkBinariesWorking
CheckBinariesWorking(cache, binaries) ==
  SelectSeq(binaries,
    LAMBDA b : \/ WorkingPath(cache, b) = NotFound
               \/ ExecBinary(WorkingPath(cache, b), b, SmokeArg(b)) = <<>>)

RECURSIVE CacheAfterWorking(_, _)
CacheAfterWorking(cache, binaries) ==
  IF binaries = <<>> THEN cache
  ELSE LET b == Head(binaries)
           c == IF cache[b] # NotFound THEN cache ELSE CacheAfterLocate(cache, b)
       IN CacheAfterWorking(c, Tail(binaries))

WorkingLog(cache, binaries) ==
  Flatten([i \in 1..Len(binaries) |->
    LET b == binaries[i]
    IN (IF cache[b] # NotFound THEN <<>> ELSE <<LocateEv(b)>>)
       \o (IF WorkingPath(cache, b) # NotFound
           THEN <<ExecEv(WorkingPath(cache, b), b, SmokeArg(b))>>
           ELSE <<>>)])

\* a variant that does not discard the records reporting an error
AvdInListing_NoErrorFilter(stdout) ==
  LET records == Split(stdout, SEP)
  IN Len(SelectSeq(records, LAMBDA avd : Includes(avd, NIGHTWATCH_AVD))) # 0

\* the parsing half of verifyAvdPresent
AvdInListing(stdout) ==
  LET records == Split(stdout, SEP)
      workingAvds == SelectSeq(records, LAMBDA avd : ~Includes(avd, ERR))
  IN Len(SelectSeq(workingAvds, LAMBDA avd : Includes(avd, NIGHTWATCH_AVD))) # 0

\* a variant that takes the device for present when avdmanager is not located
VerifyAvdPresent_SkipUnlocated ==
  IF GetBinaryLocation("avdmanager") = NotFound THEN TRUE
  ELSE AvdInListing(ExecBinary(GetBinaryLocation("avdmanager"), "avdmanager", "list avd"))

\* verifyAvdPresent
VerifyAvdPresent ==
  AvdInListing(ExecBinary(GetBinaryLocation("avdmanager"), "avdmanager", "list avd"))

AvdLog ==
  << LocateEv("avdmanager"),
     ExecEv(GetBinaryLocation("avdmanager"), "avdmanager", "list avd") >>

\* verifyAdbRunning: calls made
AdbRunningLog ==
  <<CallEv("verifyAdbRunning"), LocateEv("adb")>>
  \o (IF GetBinaryLocation("adb") # NotFound
      THEN <<ExecEv(GetBinaryLocation("adb"), "adb", "devices")>>
      ELSE <<>>)

----------------------------------------------------------------------------
(* verifySetup *)

\* a variant that adds the emulator binaries for mode "emulator" only
RequiredBinaries_EmulatorOnly(m) ==
  IF m = "emulator" THEN <<"adb", "avdmanager", "emulator">> ELSE <<"adb">>

\* a variant that requires sdkmanager as well
RequiredBinaries_WithSdkManager(m) ==
  IF m # "real" THEN <<"adb", "avdmanager", "emulator", "sdkmanager">>
  ELSE <<"adb", "sdkmanager">>

\* lines 327-331: requiredBinaries
RequiredBinaries(m) ==
  IF m # "real" THEN <<"adb", "avdmanager", "emulator">> ELSE <<"adb">>

MissingBinaries(m) == CheckBinariesPresent(RequiredBinaries(m))

\* a variant that hands every required binary to the functional pass
BinariesPresent_All(m) == RequiredBinaries(m)

\* line 362: binariesPresent
BinariesPresent(m) ==
  SelectSeq(RequiredBinaries(m), LAMBDA b : ~Includes(MissingBinaries(m), b))

\* this.binaryLocation when the functional pass starts
CacheBeforeWorking(cache, m) ==
  CacheAfterLocate(CacheAfterLocateAll(cache, RequiredBinaries(m)), "avdmanager")

\* a variant whose functional pass skips the binaries cached at entry
VerifySetup_SkipsCached(cache, m) ==
  MissingBinaries(m)
  \o (IF Includes(RequiredBinaries(m), "emulator") /\ PlatformsPath \notin files
      THEN <<"platforms">> ELSE <<>>)
  \o (IF VerifyAvdPresent THEN <<>> ELSE <<NIGHTWATCH_AVD>>)
  \o CheckBinariesWorking(CacheBeforeWorking(cache, m),
        SelectSeq(BinariesPresent(m), LAMBDA b : cache[b] = NotFound))

\* a variant that pushes the binaries that do not work before platforms
VerifySetup_WorkingFirst(cache, m) ==
  MissingBinaries(m)
  \o (IF Len(BinariesPresent(m)) # 0
      THEN CheckBinariesWorking(CacheBeforeWorking(cache, m), BinariesPresent(m))
      ELSE <<>>)
  \o (IF Includes(RequiredBinaries(m), "emulator") /\ PlatformsPath \notin files
      THEN <<"platforms">> ELSE <<>>)
  \o (IF VerifyAvdPresent THEN <<>> ELSE <<NIGHTWATCH_AVD>>)

\* the list verifySetup returns
VerifySetup(cache, m) ==
  MissingBinaries(m)
  \o (IF Includes(RequiredBinaries(m), "emulator") /\ PlatformsPath \notin files
      THEN <<"platforms">> ELSE <<>>)
  \o (IF VerifyAvdPresent THEN <<>> ELSE <<NIGHTWATCH_AVD>>)
  \o (IF Len(BinariesPresent(m)) # 0
      THEN CheckBinariesWorking(CacheBeforeWorking(cache, m), BinariesPresent(m))
      ELSE <<>>)

\* this.binaryLocation when verifySetup returns
CacheAfterVerify(cache, m) ==
  LET c == CacheAfterWorking(CacheBeforeWorking(cache, m), BinariesPresent(m))
  IN IF Len(VerifySetup(cache, m)) = 0 THEN CacheAfterLocate(c, "adb") ELSE c

\* the calls verifySetup makes
VerifyLog(cache, m) ==
  PresenceLog(RequiredBinaries(m))
  \o AvdLog
  \o WorkingLog(CacheBeforeWorking(cache, m), BinariesPresent(m))
  \o (IF Len(VerifySetup(cache, m)) = 0 THEN AdbRunningLog ELSE <<>>)

----------------------------------------------------------------------------
(* Initial states: an AndroidSetup just constructed, on any host *)

EmptyCache == [b \in SdkBinary |-> NotFound]

Present(b) == \E p \in files : BinaryAt(p) = b

Init ==
  /\ home \in {"unset", "empty", "set"}
  /\ files \in SUBSET AllFiles
  /\ (RootPath \notin files => files \cap UnderRoot = {})
  /\ working \in SUBSET SdkBinary
  /\ \A b \in working : Present(b)
  /\ avdList \in Listings
  /\ adbServer \in BOOLEAN
  /\ options \in [help : BOOLEAN, setup : BOOLEAN]
  /\ sdkRoot = ""
  /\ binaryLocation = EmptyCache
  /\ mode = ""
  /\ missing = <<>>
  /\ verified = <<>>
  /\ sdkManagerWorking = FALSE
  /\ packages = <<>>
  /\ result = FALSE
  /\ installed = "none"
  /\ avdCreated = "none"
  /\ avdPresent = "none"
  /\ ret = "pending"
  /\ pc = "run"
  /\ log = <<>>

----------------------------------------------------------------------------
(* run() *)

\* run, lines 30-34: the help flag
RunHelp ==
  /\ pc = "run"
  /\ options.help
  /\ log' = Append(log, CallEv("showHelp"))
  /\ ret' = "true"
  /\ pc' = "done"
  /\ UNCHANGED <<envVars, options, sdkRoot, binaryLocation, mode, missing,
                 verified, sdkManagerWorking, packages, result, avdCreated, avdPresent, installed>>

\* a variant that only rejects an undefined variable
GetSdkRoot_UndefinedOnly == IF home # "unset" THEN "sdkRoot" ELSE ""

\* a variant that also rejects a path that does not exist
GetSdkRoot_ExistingOnly ==
  IF home = "set" /\ RootPath \in files THEN "sdkRoot" ELSE ""

\* getSdkRoot
GetSdkRoot == IF home = "set" THEN "sdkRoot" ELSE ""

\* run, lines 36-39
RunGetSdkRoot ==
  /\ pc = "run"
  /\ ~options.help
  /\ sdkRoot' = GetSdkRoot
  /\ IF GetSdkRoot = ""
     THEN ret' = "false" /\ pc' = "done"
     ELSE ret' = ret /\ pc' = "config"
  /\ UNCHANGED <<envVars, options, binaryLocation, mode, missing, verified,
                 sdkManagerWorking, packages, result, avdCreated, avdPresent, installed, log>>

\* run, line 41: getSetupConfigs resolves the mode (flags or prompt)
RunGetSetupConfigs ==
  /\ pc = "config"
  /\ \E m \in Modes : mode' = m
  /\ log' = Append(log, CallEv("prompt"))
  /\ pc' = "verify"
  /\ UNCHANGED <<envVars, options, sdkRoot, binaryLocation, missing, verified,
                 sdkManagerWorking, packages, result, avdCreated, avdPresent, installed, ret>>

\* run, lines 44-52: verifySetup, then return or enter setupAndroid
RunVerifySetup ==
  /\ pc = "verify"
  /\ missing' = VerifySetup(binaryLocation, mode)
  /\ verified' = VerifySetup(binaryLocation, mode)
  /\ binaryLocation' = CacheAfterVerify(binaryLocation, mode)
  /\ log' = log \o <<CallEv("verifySetup")>> \o VerifyLog(binaryLocation, mode)
  /\ IF options.setup
     THEN ret' = ret /\ pc' = "setup"
     ELSE /\ ret' = IF Len(VerifySetup(binaryLocation, mode)) # 0 THEN "false" ELSE "true"
          /\ pc' = "done"
  /\ UNCHANGED <<envVars, options, sdkRoot, mode, sdkManagerWorking, packages,
                 result, avdCreated, avdPresent, installed>>

----------------------------------------------------------------------------
(* setupAndroid() *)

\* a variant without the early return
NothingMissing_Never(miss) == FALSE

\* line 388: missingRequirements.length === 0
NothingMissing(miss) == Len(miss) = 0

\* setupAndroid, lines 388-390: nothing missing
SetupNothingMissing ==
  /\ pc = "setup"
  /\ NothingMissing(missing)
  /\ ret' = "true"
  /\ pc' = "done"
  /\ UNCHANGED <<envVars, options, sdkRoot, binaryLocation, mode, missing,
                 verified, sdkManagerWorking, packages, result, avdCreated, avdPresent, installed, log>>

\* a variant that downloads only when avdmanager is missing
NeedsBootstrap_AvdmanagerOnly(sdkWorking, miss) == Includes(miss, "avdmanager")

\* line 404: is the cmdline-tools download needed
NeedsBootstrap(sdkWorking, miss) == ~sdkWorking \/ Includes(miss, "avdmanager")

\* a variant that leaves avdmanager in the list
WithoutAvdmanager_Kept(miss) == miss

\* a variant without the guard on the index: splice(-1, 1) takes the last
\* entry out when avdmanager is not in the list
WithoutAvdmanager_Unguarded(miss) ==
  IF IndexOf(miss, "avdmanager") > 0
  THEN RemoveAt(miss, IndexOf(miss, "avdmanager"))
  ELSE IF Len(miss) > 0 THEN RemoveAt(miss, Len(miss)) ELSE miss

\* lines 406-409: avdmanager taken out of missingRequirements
WithoutAvdmanager(miss) ==
  IF IndexOf(miss, "avdmanager") > 0
  THEN RemoveAt(miss, IndexOf(miss, "avdmanager"))
  ELSE miss

\* setupAndroid, lines 400-410: the sdkmanager check and the decision to
\* download cmdline-tools
SetupCheckSdkManager ==
  /\ pc = "setup"
  /\ ~NothingMissing(missing)
  /\ LET sdkWorking == Len(CheckBinariesWorking(binaryLocation, <<"sdkmanager">>)) = 0
     IN /\ sdkManagerWorking' = sdkWorking
        /\ IF NeedsBootstrap(sdkWorking, missing)
           THEN missing' = WithoutAvdmanager(missing) /\ pc' = "bootstrap"
           ELSE missing' = missing /\ pc' = "install"
  /\ binaryLocation' = CacheAfterWorking(binaryLocation, <<"sdkmanager">>)
  /\ log' = log \o <<CallEv("setupAndroid")>>
                \o WorkingLog(binaryLocation, <<"sdkmanager">>)
  /\ UNCHANGED <<envVars, options, sdkRoot, mode, verified, packages, result,
                 avdCreated, avdPresent, installed, ret>>

\* what the binaries of cmdline-tools are
CmdlineTools == {"sdkmanager", "avdmanager"}

\* setupAndroid, lines 411-412: downloadAndSetupAndroidSdk, an external
\* operation whose outcome is not inspected: it may leave the host unchanged
\* or put sdkmanager and avdmanager (working or not) under the SDK root
SetupBootstrap ==
  /\ pc = "bootstrap"
  /\ \/ UNCHANGED <<files, working>>
     \/ /\ files' = files \cup {RootPath} \cup {PathToBinary(b) : b \in CmdlineTools}
        /\ \E w \in SUBSET CmdlineTools : working' = (working \ CmdlineTools) \cup w
  /\ log' = Append(log, CallEv("downloadAndSetupAndroidSdk"))
  /\ pc' = "install"
  /\ UNCHANGED <<home, avdList, adbServer, options, sdkRoot, binaryLocation, mode, missing,
                 verified, sdkManagerWorking, packages, result, avdCreated, avdPresent, installed, ret>>

\* a variant that maps the binaries only
PackagesToInstall_BinariesOnly(miss) ==
  LET known == SelectSeq(miss, LAMBDA r : r \in SdkBinary)
  IN [i \in 1..Len(known) |-> BINARY_TO_PACKAGE_NAME[known[i]]]

\* lines 415-417: packagesToInstall
PackagesToInstall(miss) ==
  LET known == SelectSeq(miss, LAMBDA r : r \in DOMAIN BINARY_TO_PACKAGE_NAME)
  IN [i \in 1..Len(known) |-> BINARY_TO_PACKAGE_NAME[known[i]]]

\* the binaries a package puts under the SDK root
BinariesOf(pkg) ==
  CASE pkg = "cmdline-tools;latest" -> CmdlineTools
    [] pkg = "platform-tools" -> {"adb"}
    [] pkg = "emulator" -> {"emulator"}
    [] OTHER -> {}

InstalledBinaries(pkgs) == UNION {BinariesOf(pkgs[i]) : i \in 1..Len(pkgs)}

\* setupAndroid, lines 415-423: installPackagesUsingSdkManager, an external
\* operation returning success or failure.  On success the packages are on
\* the host; the system image can make a device that failed to load loadable.
SetupInstall ==
  /\ pc = "install"
  /\ packages' = PackagesToInstall(missing)
  /\ binaryLocation' = CacheAfterLocate(binaryLocation, "sdkmanager")
  /\ log' = log \o <<LocateEv("sdkmanager"), CallEv("installPackagesUsingSdkManager")>>
  /\ \E ok \in BOOLEAN :
       /\ result' = ok
       /\ installed' = IF ok THEN "ok" ELSE "failed"
       /\ IF ok /\ Len(PackagesToInstall(missing)) # 0
          THEN LET bins == InstalledBinaries(PackagesToInstall(missing))
               IN /\ files' = files \cup {RootPath} \cup {PathToBinary(b) : b \in bins}
                  /\ working' = working \cup bins
                  /\ IF Includes(PackagesToInstall(missing),
                                 BINARY_TO_PACKAGE_NAME[NIGHTWATCH_AVD])
                     THEN avdList' \in {avdList, <<"txt", NIGHTWATCH_AVD>>}
                     ELSE avdList' = avdList
          ELSE UNCHANGED <<files, working, avdList>>
  /\ pc' = "platforms"
  /\ UNCHANGED <<home, adbServer, options, sdkRoot, mode, missing, verified,
                 sdkManagerWorking, avdCreated, avdPresent, ret>>

\* setupAndroid, lines 425-435: mkdirSync of the platforms directory; an
\* error (the parent is absent, the directory exists) is swallowed
SetupPlatforms ==
  /\ pc = "platforms"
  /\ IF Includes(missing, "platforms")
     THEN /\ log' = Append(log, CallEv("mkdirSync"))
          /\ files' = IF RootPath \in files THEN files \cup {PlatformsPath} ELSE files
     ELSE UNCHANGED <<log, files>>
  /\ pc' = "avd"
  /\ UNCHANGED <<home, working, avdList, adbServer, options, sdkRoot, binaryLocation, mode,
                 missing, verified, sdkManagerWorking, packages, result,
                 avdCreated, avdPresent, installed, ret>>

\* a variant that always creates the device
AfterAvdCheck_AlwaysCreate(present) == "create"

\* line 439: if (!avdPresent) create the device, else go on to the adb check
AfterAvdCheck(present) == IF present THEN "adb" ELSE "create"

\* setupAndroid, lines 437-439: the re-check of the device
SetupCheckAvd ==
  /\ pc = "avd"
  /\ binaryLocation' = CacheAfterLocate(binaryLocation, "avdmanager")
  /\ log' = log \o AvdLog
  /\ avdPresent' = IF VerifyAvdPresent THEN "yes" ELSE "no"
  /\ pc' = AfterAvdCheck(VerifyAvdPresent)
  /\ UNCHANGED <<envVars, options, sdkRoot, mode, missing, verified,
                 sdkManagerWorking, packages, result, avdCreated, installed, ret>>

\* can `avdmanager create avd` be started at all
CanRunAvdmanager ==
  ExecBinary(GetBinaryLocation("avdmanager"), "avdmanager", "create avd") # <<>>

\* a variant that does not record a failed creation
ResultAfterCreate_Ignored(res, created) == res

\* lines 448-452: result after the create command
ResultAfterCreate(res, created) == IF created THEN res ELSE FALSE

\* setupAndroid, lines 440-453: `avdmanager create avd --force ...`; it
\* prints something and creates the device, or fails and prints nothing
SetupCreateAvd ==
  /\ pc = "create"
  /\ binaryLocation' = CacheAfterLocate(binaryLocation, "avdmanager")
  /\ log' = log \o <<LocateEv("avdmanager"),
                     ExecEv(GetBinaryLocation("avdmanager"), "avdmanager", "create avd")>>
  /\ \E created \in (IF CanRunAvdmanager THEN BOOLEAN ELSE {FALSE}) :
       IF created
       THEN /\ avdCreated' = "ok"
            /\ avdList' = <<"txt", NIGHTWATCH_AVD>>
            /\ result' = ResultAfterCreate(result, TRUE)
       ELSE /\ avdCreated' = "failed"
            /\ avdList' = avdList
            /\ result' = ResultAfterCreate(result, FALSE)
  /\ pc' = "adb"
  /\ UNCHANGED <<home, files, working, adbServer, options, sdkRoot, mode, missing,
                 verified, sdkManagerWorking, packages, installed, avdPresent, ret>>

\* a variant that lets the adb check decide the result
SetupReturn_NeedsAdb(res) ==
  IF res /\ ExecBinary(GetBinaryLocation("adb"), "adb", "devices") # <<>>
  THEN "true" ELSE "false"

\* line 472: return result
SetupReturn(res) == IF res THEN "true" ELSE "false"

\* setupAndroid, lines 455-472: verifyAdbRunning, then return result
SetupVerifyAdb ==
  /\ pc = "adb"
  /\ binaryLocation' = CacheAfterLocate(binaryLocation, "adb")
  /\ log' = log \o AdbRunningLog
  /\ ret' = SetupReturn(result)
  /\ pc' = "done"
  /\ UNCHANGED <<envVars, options, sdkRoot, mode, missing, verified,
                 sdkManagerWorking, packages, result, avdCreated, avdPresent, installed>>

Next ==
  \/ RunHelp
  \/ RunGetSdkRoot
  \/ RunGetSetupConfigs
  \/ RunVerifySetup
  \/ SetupNothingMissing
  \/ SetupCheckSdkManager
  \/ SetupBootstrap
  \/ SetupInstall
  \/ SetupPlatforms
  \/ SetupCheckAvd
  \/ SetupCreateAvd
  \/ SetupVerifyAdb

Spec == Init /\ [][Next]_vars

----------------------------------------------------------------------------
(* verifySetup called twice on one AndroidSetup, on a host nothing else     *)
(* touches.  `missing` keeps the list of the first call, `verified` holds   *)
(* the list of the latest call.                                             *)

\* an instance whose sdkRoot has been resolved, before the first call
InitTwice ==
  /\ home = "set"
  /\ files \in SUBSET AllFiles
  /\ (RootPath \notin files => files \cap UnderRoot = {})
  /\ working \in SUBSET SdkBinary
  /\ \A b \in working : Present(b)
  /\ avdList \in Listings
  /\ adbServer \in BOOLEAN
  /\ options \in [help : {FALSE}, setup : BOOLEAN]
  /\ sdkRoot = "sdkRoot"
  /\ binaryLocation = EmptyCache
  /\ mode \in Modes
  /\ missing = <<>>
  /\ verified = <<>>
  /\ sdkManagerWorking = FALSE
  /\ packages = <<>>
  /\ result = FALSE
  /\ installed = "none"
  /\ avdCreated = "none"
  /\ avdPresent = "none"
  /\ ret = "pending"
  /\ pc = "first"
  /\ log = <<>>

\* verifySetup(setupConfigs), first and second call
CallVerifySetup ==
  /\ pc \in {"first", "second"}
  /\ verified' = VerifySetup(binaryLocation, mode)
  /\ missing' = IF pc = "first" THEN VerifySetup(binaryLocation, mode) ELSE missing
  /\ binaryLocation' = CacheAfterVerify(binaryLocation, mode)
  /\ log' = log \o <<CallEv("verifySetup")>> \o VerifyLog(binaryLocation, mode)
  /\ pc' = IF pc = "first" THEN "second" ELSE "twice"
  /\ UNCHANGED <<envVars, options, sdkRoot, mode, sdkManagerWorking, packages,
                 result, installed, avdCreated, avdPresent, ret>>

NextTwice == CallVerifySetup

SpecTwice == InitTwice /\ [][NextTwice]_vars

----------------------------------------------------------------------------
(* verifyAvdPresent called on any listing text *)

MaxListingLen == 5

Tokens == {"txt", SEP, ERR, NIGHTWATCH_AVD}

AllListings == UNION {[1..n -> Tokens] : n \in 0..MaxListingLen}

\* an instance whose sdkRoot has been resolved; avdmanager may be absent,
\* failing, or printing any text
InitAvd ==
  /\ home = "set"
  /\ files \in {{RootPath}, {RootPath, PathToBinary("avdmanager")}}
  /\ working \in SUBSET {"avdmanager"}
  /\ \A b \in working : Present(b)
  /\ avdList \in AllListings
  /\ adbServer = FALSE
  /\ options = [help |-> FALSE, setup |-> FALSE]
  /\ sdkRoot = "sdkRoot"
  /\ binaryLocation = EmptyCache
  /\ mode = ""
  /\ missing = <<>>
  /\ verified = <<>>
  /\ sdkManagerWorking = FALSE
  /\ packages = <<>>
  /\ result = FALSE
  /\ installed = "none"
  /\ avdCreated = "none"
  /\ avdPresent = "none"
  /\ ret = "pending"
  /\ pc = "call"
  /\ log = <<>>

\* verifyAvdPresent()
CallVerifyAvdPresent ==
  /\ pc = "call"
  /\ avdPresent' = IF VerifyAvdPresent THEN "yes" ELSE "no"
  /\ binaryLocation' = CacheAfterLocate(binaryLocation, "avdmanager")
  /\ log' = log \o AvdLog
  /\ pc' = "returned"
  /\ UNCHANGED <<envVars, options, sdkRoot, mode, missing, verified,
                 sdkManagerWorking, packages, result, installed, avdCreated, ret>>

NextAvd == CallVerifyAvdPresent

SpecAvd == InitAvd /\ [][NextAvd]_vars

----------------------------------------------------------------------------
(* Properties *)

\* verifySetup has been called in this run
VerifyDone == Includes(log, CallEv("verifySetup"))

\* verifySetup has returned and nothing has touched the host since
AfterVerify ==
  /\ VerifyDone
  /\ pc = "setup" \/ (pc = "done" /\ ~options.setup)

\* setupAndroid went past its early return
SetupRan == Includes(log, CallEv("setupAndroid"))

Count(P(_)) == Cardinality({i \in 1..Len(log) : P(log[i])})

FirstPos(ev) == IndexOf(log, ev)

AdbLocatedAndWorking ==
  ExecBinary(GetBinaryLocation("adb"), "adb", "--version") # <<>>

\* what the adb check of verifyAdbRunning finds
AdbServerRunning ==
  ExecBinary(GetBinaryLocation("adb"), "adb", "devices") # <<>>

\* C1: in mode "real", on a host where adb is located and its smoke test
\* prints something, verifySetup returns an empty list and run without
\* --setup returns true, whatever the state of avdmanager, emulator,
\* platforms and the device.
C1_RealNeedsOnlyAdb ==
  (AfterVerify /\ mode = "real" /\ AdbLocatedAndWorking)
    => /\ verified = <<>>
       /\ (pc = "done" => ret = "true")

\* C2: in mode "real" the list verifySetup returns never holds avdmanager,
\* emulator or platforms; in mode "emulator" or "both" each of the three
\* that is absent from the host is in the list.
C2_ModeRequirements ==
  AfterVerify =>
    /\ mode = "real" =>
         \A r \in {"avdmanager", "emulator", "platforms"} : ~Includes(verified, r)
    /\ mode # "real" =>
         /\ \A b \in {"avdmanager", "emulator"} :
              GetBinaryLocation(b) = NotFound => Includes(verified, b)
         /\ PlatformsPath \notin files => Includes(verified, "platforms")

C2_Witness ==
  /\ AfterVerify
  /\ mode = "both"
  /\ GetBinaryLocation("avdmanager") = NotFound
  /\ GetBinaryLocation("emulator") = NotFound
  /\ PlatformsPath \notin files
  /\ GetBinaryLocation("adb") # NotFound

\* C3 as stated: with ANDROID_HOME unset or empty, run returns false having
\* made no prompt, location, execution, verification or remediation call.
C3_Original ==
  (pc = "done" /\ home \in {"unset", "empty"})
    => (ret = "false" /\ log = <<>>)

\* C3: in a run that does not show the help, with ANDROID_HOME unset or
\* empty, run ends right after getSdkRoot: it returns false and no prompt,
\* location, execution, verification or remediation call is ever made.
C3_UnsetRootFails ==
  (~options.help /\ home \in {"unset", "empty"})
    => /\ pc \in {"run", "done"}
       /\ log = <<>>
       /\ binaryLocation = EmptyCache
       /\ (pc = "done" => ret = "false" /\ sdkRoot = "")

C3_Witness ==
  /\ pc = "done"
  /\ ~options.help
  /\ home = "empty"
  /\ ret = "false"
  /\ Present("adb")

\* C4 as stated: with ANDROID_HOME set to a path that does not exist, a run
\* (that does not show the help) returns false without running the checker.
C4_Original ==
  (~options.help /\ home = "set" /\ RootPath \notin files)
    => /\ pc \in {"run", "done"}
       /\ ~VerifyDone
       /\ (pc = "done" => ret = "false")

\* C4: with ANDROID_HOME set to a non-empty value, a run that does not show
\* the help always reaches verifySetup, also when the path does not exist;
\* for a path that does not exist and no --setup, verifySetup reports the
\* device missing and run returns false.
C4_NonexistentRootIsVerified ==
  (pc = "done" /\ ~options.help /\ home = "set")
    => /\ VerifyDone
       /\ sdkRoot = "sdkRoot"
       /\ (~options.setup /\ RootPath \notin files)
            => (ret = "false" /\ Includes(verified, NIGHTWATCH_AVD))

C4_Witness ==
  /\ pc = "done"
  /\ ~options.help
  /\ ~options.setup
  /\ home = "set"
  /\ RootPath \notin files
  /\ VerifyDone
  /\ ret = "false"

IsCreate(e) == e.op = "exec" /\ e.arg = "create avd"
IsMkdir(e) == e = CallEv("mkdirSync")
IsInstall(e) == e = CallEv("installPackagesUsingSdkManager")
IsBootstrap(e) == e = CallEv("downloadAndSetupAndroidSdk")
IsAdbCheck(e) == e = CallEv("verifyAdbRunning")
IsAvdList(e) == e.op = "exec" /\ e.bin = "avdmanager" /\ e.arg = "list avd"
IsSdkManager(e) == e.bin = "sdkmanager"

\* a planner or executor call
IsRemediation(e) ==
  \/ e = CallEv("setupAndroid")
  \/ IsSdkManager(e) \/ IsBootstrap(e) \/ IsInstall(e) \/ IsMkdir(e) \/ IsCreate(e)

LastPos(P(_)) ==
  IF \E i \in 1..Len(log) : P(log[i])
  THEN CHOOSE i \in 1..Len(log) : P(log[i]) /\ \A j \in (i+1)..Len(log) : ~P(log[j])
  ELSE 0

SetupDone == pc = "done" /\ SetupRan

\* C5: whenever the installer reports failure or an attempted device
\* creation fails, setupAndroid (and run with --setup) returns false, even
\* if the other step succeeded.
C5_FailureMeansFalse ==
  /\ (installed = "failed" \/ avdCreated = "failed")
       => (pc \in {"platforms", "avd", "create", "adb", "done"} /\ ~result)
  /\ (SetupDone /\ ret = "true")
       => (installed = "ok" /\ avdCreated # "failed")

C5_Witness ==
  /\ SetupDone
  /\ installed = "ok"
  /\ avdCreated = "failed"
  /\ ret = "false"

\* C6 as stated: when the sdkmanager check fails, the remaining steps still
\* run and setupAndroid returns false.
C6_Original ==
  (SetupDone /\ ~sdkManagerWorking)
    => /\ Count(IsInstall) = 1
       /\ Count(IsAdbCheck) >= 1
       /\ ret = "false"

\* C6: when the sdkmanager check fails, remediation is not aborted: the
\* cmdline-tools download, the installer, the device re-check and the adb
\* check all still run, and the failed check is not recorded in the result,
\* which is true exactly when the installer reported success and no device
\* creation failed.
C6_SdkManagerFailureContinues ==
  (SetupDone /\ ~sdkManagerWorking)
    => /\ Count(IsBootstrap) = 1
       /\ Count(IsInstall) = 1
       /\ LastPos(IsAvdList) > LastPos(IsInstall)
       /\ LastPos(IsAdbCheck) > LastPos(IsAvdList)
       /\ (ret = "true" <=> (installed = "ok" /\ avdCreated # "failed"))

C6_Witness ==
  /\ SetupDone
  /\ ~sdkManagerWorking
  /\ ret = "true"

\* C7: in a remediation run with a non-empty missing list, a failed install
\* or device creation never stops the later steps (platforms directory when
\* it was missing, device re-check, creation when the re-check finds no
\* device), the adb check is the last step, and its outcome does not change
\* the value returned.
C7_BestEffort ==
  SetupDone =>
    /\ Count(IsInstall) = 1
    /\ Includes(missing, "platforms")
         => (Count(IsMkdir) = 1 /\ LastPos(IsMkdir) > LastPos(IsInstall))
    /\ LastPos(IsAvdList) > LastPos(IsInstall)
    /\ LastPos(IsAvdList) > LastPos(IsMkdir)
    /\ Count(IsCreate) = 0 => VerifyAvdPresent
    /\ Count(IsCreate) > 0 => LastPos(IsCreate) > LastPos(IsAvdList)
    /\ LastPos(IsAdbCheck) > LastPos(IsAvdList)
    /\ LastPos(IsAdbCheck) > LastPos(IsCreate)
    /\ \A i \in (LastPos(IsAdbCheck) + 1)..Len(log) : log[i].bin = "adb"
    /\ ret = (IF installed = "ok" /\ avdCreated # "failed" THEN "true" ELSE "false")

C7_Witness ==
  /\ SetupDone
  /\ installed = "failed"
  /\ Count(IsMkdir) = 1
  /\ avdCreated = "ok"
  /\ AdbServerRunning
  /\ ret = "false"

\* C8: when verifySetup finds nothing missing, run returns true and makes no
\* planner or executor call (no sdkmanager check, no cmdline-tools download,
\* no install, no directory or device creation), with or without --setup.
C8_NothingMissingNoRemediation ==
  (VerifyDone /\ verified = <<>>)
    => /\ Count(IsRemediation) = 0
       /\ pc \in {"setup", "done"}
       /\ installed = "none" /\ avdCreated = "none"
       /\ (pc = "done" => ret = "true")

C8_Witness ==
  /\ pc = "done"
  /\ VerifyDone
  /\ verified = <<>>
  /\ options.setup
  /\ ret = "true"

\* C9: when avdmanager is in the list handed to setupAndroid, the
\* cmdline-tools download runs before the installer is called and the
\* package list holds no package derived from avdmanager.
C9_AvdmanagerSuperseded ==
  (Includes(verified, "avdmanager") /\ Count(IsInstall) > 0)
    => /\ Count(IsBootstrap) = 1
       /\ FirstPos(CallEv("downloadAndSetupAndroidSdk"))
            < FirstPos(CallEv("installPackagesUsingSdkManager"))
       /\ ~Includes(packages, BINARY_TO_PACKAGE_NAME["avdmanager"])
       /\ ~Includes(missing, "avdmanager")

C9_Witness ==
  /\ SetupDone
  /\ Includes(verified, "avdmanager")
  /\ sdkManagerWorking
  /\ Len(packages) > 0

\* C10 as stated: for the list <<platforms, device>> there is exactly one
\* directory creation, one device creation and an empty package list.
C10_Original ==
  (SetupDone /\ verified = <<"platforms", NIGHTWATCH_AVD>>)
    => /\ Count(IsMkdir) = 1
       /\ Count(IsCreate) = 1
       /\ packages = <<>>

\* C10: for the list <<platforms, device>> there is exactly one directory
\* creation, the package list holds exactly the system image of the device,
\* and the device is created at most once: not at all when the re-check
\* after the install finds it, once otherwise.
C10_PlatformsAndDevice ==
  (SetupDone /\ verified = <<"platforms", NIGHTWATCH_AVD>>)
    => /\ Count(IsMkdir) = 1
       /\ packages = <<BINARY_TO_PACKAGE_NAME[NIGHTWATCH_AVD]>>
       /\ Count(IsCreate) <= 1
       /\ Count(IsCreate) = 0 => (VerifyAvdPresent /\ avdCreated = "none")
       /\ Count(IsCreate) = 1 => avdCreated # "none"

C10_Witness ==
  /\ SetupDone
  /\ verified = <<"platforms", NIGHTWATCH_AVD>>
  /\ Count(IsCreate) = 1
  /\ PlatformsPath \in files

\* C11: when the re-check after the install step reports the device
\* present, the create command (which uses --force) is never issued in that
\* run.
C11_PresentDeviceNotRecreated ==
  avdPresent = "yes"
    => /\ Count(IsCreate) = 0
       /\ avdCreated = "none"
       /\ pc \in {"adb", "done"}

C11_Witness ==
  /\ SetupDone
  /\ Includes(verified, NIGHTWATCH_AVD)
  /\ installed = "ok"
  /\ avdPresent = "yes"
  /\ Count(IsCreate) = 0

\* C12: two calls of verifySetup on the same instance, with the same mode
\* and an unchanged host, return the same list, although the second call
\* starts with the location cache the first one filled.
C12_VerifyIdempotent ==
  pc = "twice" => verified = missing

C12_Witness ==
  /\ pc = "twice"
  /\ binaryLocation # EmptyCache
  /\ GetBinaryLocation("adb") # NotFound
  /\ Includes(verified, "adb")
  /\ Includes(verified, "emulator")
  /\ Count(LAMBDA e : e = CallEv("verifySetup")) = 2

\* the functional pass ran binary b: an execution at a real location
RanAtLocation(b) ==
  Count(LAMBDA e : e.op = "exec" /\ e.bin = b /\ e.loc # NotFound)

Occurrences(s, x) == Cardinality({i \in 1..Len(s) : s[i] = x})

\* C13: a binary that failed the presence pass is not run (and not reported
\* again) by the functional pass of the same verifySetup call, so the list
\* returned holds each binary identifier at most once.
C13_NoDuplicateBinaries ==
  AfterVerify =>
    \A b \in SdkBinary :
      /\ Occurrences(verified, b) <= 1
      /\ Includes(MissingBinaries(mode), b)
           => (Occurrences(verified, b) = 1 /\ RanAtLocation(b) = 0)

C13_Witness ==
  /\ AfterVerify
  /\ mode = "both"
  /\ Includes(MissingBinaries(mode), "avdmanager")
  /\ Includes(verified, "emulator")
  /\ RanAtLocation("emulator") = 1
  /\ Occurrences(verified, "avdmanager") = 1

\* the places getBinaryLocation looks for binary b
CandidateLocations(b) ==
  IF b = "adb" THEN {PathToBinary(b), AdbPath, AdbOnPath} ELSE {PathToBinary(b)}

IsLocateOf(b, e) == e.op = "locate" /\ e.bin = b

\* C14: for every binary the mode requires that is at none of its candidate
\* locations, getBinaryLocation returns '' and the list verifySetup returns
\* holds that binary.
C14_AbsentBinaryIsMissing ==
  AfterVerify =>
    \A i \in 1..Len(RequiredBinaries(mode)) :
      LET b == RequiredBinaries(mode)[i]
      IN CandidateLocations(b) \cap files = {}
           => /\ Count(LAMBDA e : IsLocateOf(b, e)) >= 1
              /\ \A j \in 1..Len(log) :
                   IsLocateOf(b, log[j]) => log[j].loc = NotFound
              /\ binaryLocation[b] = NotFound
              /\ Includes(verified, b)

C14_Witness ==
  /\ AfterVerify
  /\ mode = "emulator"
  /\ CandidateLocations("adb") \cap files = {}
  /\ CandidateLocations("emulator") \cap files = {}
  /\ PathToBinary("avdmanager") \in files
  /\ Includes(verified, "adb")
  /\ Includes(verified, "emulator")

\* what `avdmanager list avd` printed ('' when it could not be run)
ListingOutput ==
  ExecBinary(GetBinaryLocation("avdmanager"), "avdmanager", "list avd")

\* positions strictly between i and j
Between(i, j) == IF i < j THEN (i+1)..(j-1) ELSE (j+1)..(i-1)

\* the text has the device name in a record (a stretch without separator)
\* that holds no 'Error: '
HasValidRecord(text) ==
  \E k \in 1..Len(text) :
    /\ text[k] = NIGHTWATCH_AVD
    /\ \A j \in 1..Len(text) :
         text[j] = ERR => \E s \in Between(j, k) : text[s] = SEP

\* C15: verifyAvdPresent returns true exactly when the listing, split on
\* '---------', has a record without 'Error: ' that holds the device name;
\* an empty or failed listing, or one naming the device only in records
\* with an error, gives false.
C15_AvdPresentIffValidRecord ==
  pc = "returned" =>
    /\ avdPresent = "yes" <=> HasValidRecord(ListingOutput)
    /\ ListingOutput = <<>> => avdPresent = "no"

\* one error record, then a record naming the device
C15_Witness ==
  /\ pc = "returned"
  /\ ListingOutput = <<SEP, ERR, SEP, NIGHTWATCH_AVD, SEP>>
  /\ avdPresent = "yes"

AvdmanagerLocated == GetBinaryLocation("avdmanager") # NotFound

\* C16 as stated, in the modes that require avdmanager: when avdmanager was
\* not located the device pass executes nothing and does not add the device
\* to the list.
C16_Original ==
  (AfterVerify /\ mode # "real" /\ ~AvdmanagerLocated)
    => /\ Count(LAMBDA e : e.op = "exec" /\ e.bin = "avdmanager") = 0
       /\ ~Includes(verified, NIGHTWATCH_AVD)

\* C16: the device pass of verifySetup calls verifyAvdPresent in every case.
\* With avdmanager located it runs `list avd` at that location.  With
\* avdmanager not located it calls execBinary once with the empty location:
\* no avdmanager binary runs, the listing is empty and the device is added
\* to the list, once.
C16_DevicePassAlwaysRuns ==
  AfterVerify =>
    /\ Count(LAMBDA e : IsAvdList(e) /\ e.loc = GetBinaryLocation("avdmanager")) >= 1
    /\ ~AvdmanagerLocated =>
         /\ Count(LAMBDA e : e.op = "exec" /\ e.bin = "avdmanager") = 1
         /\ RanAtLocation("avdmanager") = 0
         /\ Occurrences(verified, NIGHTWATCH_AVD) = 1
    /\ AvdmanagerLocated =>
         (Includes(verified, NIGHTWATCH_AVD) <=> ~AvdInListing(ListingOutput))

C16_Witness ==
  /\ AfterVerify
  /\ mode = "emulator"
  /\ ~AvdmanagerLocated
  /\ Includes(verified, "avdmanager")
  /\ Includes(verified, NIGHTWATCH_AVD)

\* C17: the create command is issued only when the device was in the list
\* handed to setupAndroid and the re-check reports it absent.
C17_CreateOnlyIfReportedMissing ==
  Count(IsCreate) > 0
    => (Includes(verified, NIGHTWATCH_AVD) /\ avdPresent = "no")

\* x comes before y wherever both are in the list verifySetup returned
Precedes(P(_), Q(_)) ==
  \A i, j \in 1..Len(verified) : (P(verified[i]) /\ Q(verified[j])) => i < j

IsBinaryId(r) == r \in SdkBinary
IsUnlocated(r) == r \in SdkBinary /\ GetBinaryLocation(r) = NotFound
IsNotWorking(r) == r \in SdkBinary /\ GetBinaryLocation(r) # NotFound
IsPlatforms(r) == r = "platforms"
IsDevice(r) == r = NIGHTWATCH_AVD

\* C18 as stated: every binary identifier in the list, unlocated or located
\* but not working, precedes platforms and the device, and platforms
\* precedes the device.
C18_Original ==
  AfterVerify =>
    /\ Precedes(IsBinaryId, IsPlatforms)
    /\ Precedes(IsBinaryId, IsDevice)
    /\ Precedes(IsPlatforms, IsDevice)

\* C18: the list is in insertion order: the binaries that were not located,
\* then platforms, then the device, then the binaries that were located but
\* do not work.
C18_InsertionOrder ==
  AfterVerify =>
    /\ Precedes(IsUnlocated, IsPlatforms)
    /\ Precedes(IsUnlocated, IsDevice)
    /\ Precedes(IsUnlocated, IsNotWorking)
    /\ Precedes(IsPlatforms, IsDevice)
    /\ Precedes(IsPlatforms, IsNotWorking)
    /\ Precedes(IsDevice, IsNotWorking)

C18_Witness ==
  /\ AfterVerify
  /\ verified = <<"emulator", "platforms", NIGHTWATCH_AVD, "adb">>

\* the remediation step of this run that addresses the identifier r
Addressed(r) ==
  \/ r = "avdmanager" /\ Count(IsBootstrap) = 1
  \/ /\ r \in {"adb", "emulator"}
     /\ Count(IsInstall) = 1
     /\ Includes(packages, BINARY_TO_PACKAGE_NAME[r])
  \/ r = "platforms" /\ Count(IsMkdir) = 1
  \/ /\ r = NIGHTWATCH_AVD
     /\ Count(IsInstall) = 1
     /\ Includes(packages, BINARY_TO_PACKAGE_NAME[NIGHTWATCH_AVD])
     /\ (avdPresent = "yes" \/ (Count(IsCreate) = 1 /\ avdCreated = "ok"))

Reportable == {"adb", "avdmanager", "emulator", "platforms", NIGHTWATCH_AVD}

\* everything verifySetup looks at is in order on the host
ReadyButForSdkManager ==
  /\ \A i \in 1..Len(RequiredBinaries(mode)) :
       LET b == RequiredBinaries(mode)[i]
       IN ExecBinary(GetBinaryLocation(b), b, SmokeArg(b)) # <<>>
  /\ Includes(RequiredBinaries(mode), "emulator") => PlatformsPath \in files
  /\ VerifyAvdPresent

\* C20: the list verifySetup produces holds only adb, avdmanager, emulator,
\* platforms and the device name; verifySetup neither locates nor runs
\* sdkmanager; and a run without --setup on a host where everything but
\* sdkmanager is in order returns true.
C20_SdkManagerNotVerified ==
  /\ \A i \in 1..Len(verified) : verified[i] \in Reportable
  /\ (VerifyDone /\ ~SetupRan) =>
       /\ \A i \in 1..Len(log) : ~IsSdkManager(log[i])
       /\ binaryLocation["sdkmanager"] = EmptyCache["sdkmanager"]
  /\ (pc = "done" /\ VerifyDone /\ ~options.setup /\ ReadyButForSdkManager)
       => ret = "true"

C20_Witness ==
  /\ pc = "done"
  /\ VerifyDone
  /\ ~options.setup
  /\ mode = "both"
  /\ ~Present("sdkmanager")
  /\ verified = <<>>
  /\ ret = "true"

====
